---- MODULE Spec2Model ----
(***************************************************************************)
(* Model of the factorio-hardened mage targets:                            *)
(*   - SrcDigest (Show, Compare, Sync, All): the digest baseline           *)
(*     reconciler working on the baseline file;                            *)
(*   - Hardened (Prepare, Build, Verify, Promote, Clean, All): the staged  *)
(*     image pipeline.                                                     *)
(* External tools (docker, trivy, kubectl), the clock and the file system  *)
(* are inputs: their answers and failures are drawn nondeterministically.  *)
(* What the docker adapter answers is what the model calls "upstream".     *)
(***************************************************************************)
EXTENDS Integers, Sequences, FiniteSets, TLC

\* ------------------------------------------------------------------ bounds
MaxManifest == 2    \* longest manifest list the adapter returns
MaxClock    == 2    \* last second the clock reaches (it starts at 1)

\* --------------------------------------------------------------- constants
upstreamImage == "factoriotools/factorio"
factorioTag   == "2.0.69"
imageRepo     == "ghcr.io/henryhall897/factorio-hardened"

nil == "nil"

\* Architecture strings as they appear in a manifest (raw, any case) ...
RawArchs == {"amd64", "AMD64", "arm64", "riscv64"}
\* ... and as keys of the digests map of a baseline file.
ArchKeys == {"amd64", "arm64", "riscv64"}
\* runtime.GOARCH of the host the targets run on
GOARCH == "amd64"

getLocalArch == GOARCH

ArchDigests == {"sha256:aaa", "sha256:bbb"}
ListDigests == {"sha256:ccc", "sha256:ddd"}
\* a key that is not in a Go map
Missing == "<no key>"

\* strings.ToLower on the strings of the model that have capitals folded
ToLower(s) == IF s = "AMD64" THEN "amd64"
              ELSE IF s = "TRUE" THEN "true"
              ELSE s

\* strings.TrimSpace: the strings of the model with outer blanks are two
\* indented Dockerfile lines
TrimSpace(s) ==
    IF s = "  FROM factoriotools/factorio:stable AS base"
    THEN "FROM factoriotools/factorio:stable AS base"
    ELSE IF s = "  COPY --from=init-config /defaults/config /factorio/config/"
    THEN "COPY --from=init-config /defaults/config /factorio/config/"
    ELSE s

\* strings.EqualFold
EqualFold(a, b) == ToLower(a) = ToLower(b)

isValidArch(arch) == ToLower(TrimSpace(arch)) \in {"amd64", "arm64"}

\* ---------------------------------------------------------- baseline file
NoDigests == [k \in ArchKeys |-> Missing]

\* content of baselineFile: absent, unparsable bytes (also an empty or
\* truncated file), or a MultiArchMetadata document
AbsentFile  == [kind |-> "absent", repository |-> "", tag |-> "",
                manifest_list |-> "", digests |-> NoDigests, updated_at |-> 0]
CorruptFile == [kind |-> "corrupt", repository |-> "", tag |-> "",
                manifest_list |-> "", digests |-> NoDigests, updated_at |-> 0]

MultiArchMetadata(repo, tag, list, digests, at) ==
    [kind |-> "record", repository |-> repo, tag |-> tag,
     manifest_list |-> list, digests |-> digests, updated_at |-> at]

\* os.ReadFile(baselineFile) followed by json.Unmarshal
ReadErr(file)  == file.kind = "absent"
ParseErr(file) == file.kind = "corrupt"

\* baseline files found on disk before the first operation; they were
\* written before the clock of the model starts (updated_at = 0 < clock)
InitDigestMaps ==
    { NoDigests,
      [NoDigests EXCEPT !["amd64"] = "sha256:aaa"],
      [NoDigests EXCEPT !["arm64"] = "sha256:bbb"],
      [NoDigests EXCEPT !["riscv64"] = "sha256:aaa"],
      [NoDigests EXCEPT !["amd64"] = "sha256:aaa", !["arm64"] = "sha256:bbb"] }

InitFiles ==
    {AbsentFile, CorruptFile} \cup
    { MultiArchMetadata(upstreamImage, factorioTag, l, d, 0) :
        l \in ListDigests, d \in InitDigestMaps }

\* ------------------------------------------------------------- upstream
\* platform entries a manifest is made of
ManifestEntries ==
    { [arch |-> "amd64",   digest |-> "sha256:aaa"],
      [arch |-> "AMD64",   digest |-> "sha256:bbb"],
      [arch |-> "arm64",   digest |-> "sha256:bbb"],
      [arch |-> "riscv64", digest |-> "sha256:aaa"] }

VARIABLES
    upstream,    \* what the adapter answers: [list, manifests]
    clock,       \* time.Now() in whole seconds
    baseline,    \* content of baselineFile
    op,          \* last SrcDigest operation that returned
    ret,         \* the error it returned (nil for none)
    cmpRet,      \* the error of the Compare it ran (All, Compare)
    syncRan,     \* whether it invoked Sync
    pc,          \* Hardened.All: the stage about to run ("idle", "done")
    invoked,     \* Hardened.All: the stages invoked so far, in order
    failedStage, \* Hardened.All: the stage that returned an error
    cleanWarned, \* Hardened.All: Clean could not remove a file
    allRet,      \* Hardened.All: the error returned ("running" before)
    pinned,      \* content of outputDockerfile
    buildmeta,   \* content of buildmeta.json
    mode,        \* the Hardened target that runs: "All" or "Test"
    stageErr,    \* the error the last stage returned
    checks,      \* the sub-checks the last Verify called, with their outcome
    tags,        \* the image tag Build, Verify and Promote worked on
    env,         \* the environment variables of the run
    template,    \* content of hardenedDockerfile
    registry,    \* the tags pushed to the registry of imageRepo
    diag,        \* what the stages of the run met and printed
    syncPc,      \* a Sync taken step by step: "idle", "built", "created"
    pending,     \* the record that Sync has built in memory
    reader,      \* what the last reader of the baseline file got
    host,        \* the development host: its tools and its GitHub token
    envcheck,    \* what Verify.All and Verify.Summary did on this host
    deps         \* what the last Deps target did

digestVars == <<upstream, clock, op, ret, cmpRet, syncRan>>

hardenedVars == <<pc, invoked, failedStage, cleanWarned, allRet, pinned, buildmeta,
                  mode, stageErr, checks, tags, env, template, registry, diag>>

concVars == <<syncPc, pending, reader>>

toolVars == <<host, envcheck, deps>>

vars == <<baseline, upstream, clock, op, ret, cmpRet, syncRan,
          pc, invoked, failedStage, cleanWarned, allRet, pinned, buildmeta,
          mode, stageErr, checks, tags, env, template, registry, diag,
          syncPc, pending, reader, host, envcheck, deps>>

\* ------------------------------------------------------------- adapter
\* outcome of one adapter call: which step of it fails, if any
CompareFaults == {"none", "docker", "list", "manifest"}
SyncFaults    == {"none", "docker", "pull", "list", "manifest", "parse", "create",
                  "encode"}

ensureDockerAvailable(fault) ==
    IF fault = "docker" THEN "docker not found in PATH" ELSE nil

getLocalManifestListDigest(up, fault) ==
    IF fault = "list"
    THEN [val |-> "", err |-> "failed to inspect manifest list digest"]
    ELSE [val |-> up.list, err |-> nil]

RECURSIVE FirstMatch(_, _, _)
FirstMatch(ms, arch, i) ==
    IF i > Len(ms) THEN Missing
    ELSE IF EqualFold(ms[i].arch, arch) THEN ms[i].digest
    ELSE FirstMatch(ms, arch, i + 1)

getLocalArchDigest(up, arch, fault) ==
    IF fault = "manifest"
    THEN [val |-> "", err |-> "failed to inspect manifest"]
    ELSE LET d == FirstMatch(up.manifests, arch, 1)
         IN  IF d = Missing
             THEN [val |-> "", err |-> "no digest found for architecture"]
             ELSE [val |-> d, err |-> nil]


\* ------------------------------------------------------- SrcDigest.Show
ShowErr(file) ==
    IF ReadErr(file) THEN nil
    ELSE IF ParseErr(file) THEN "failed to parse baseline file"
    ELSE nil

\* ---------------------------------------------------- SrcDigest.Compare
CompareErr_MissingIsUpToDate(file, up, arch, fault) ==
    LET currentList == getLocalManifestListDigest(up, fault)
        currentArch == getLocalArchDigest(up, arch, fault)
    IN  IF ensureDockerAvailable(fault) # nil THEN ensureDockerAvailable(fault)
        ELSE IF currentList.err # nil THEN currentList.err
        ELSE IF currentArch.err # nil THEN currentArch.err
        ELSE IF ReadErr(file) THEN "no baseline file found"
        ELSE IF ParseErr(file) THEN "failed to parse baseline"
        ELSE IF file.manifest_list # currentList.val
             THEN "manifest list digest changed"
        ELSE IF file.digests[arch] # Missing /\ file.digests[arch] # currentArch.val
             THEN "digest changed for local arch"
        ELSE nil

\* the error Compare returns; nil is the verdict "up to date"
CompareErr(file, up, arch, fault) ==
    LET currentList == getLocalManifestListDigest(up, fault)
        currentArch == getLocalArchDigest(up, arch, fault)
    IN  IF ensureDockerAvailable(fault) # nil THEN ensureDockerAvailable(fault)
        ELSE IF currentList.err # nil THEN currentList.err
        ELSE IF currentArch.err # nil THEN currentArch.err
        ELSE IF ReadErr(file) THEN "no baseline file found"
        ELSE IF ParseErr(file) THEN "failed to parse baseline"
        ELSE IF file.manifest_list # currentList.val
             THEN "manifest list digest changed"
        ELSE IF file.digests[arch] # Missing
             THEN IF file.digests[arch] # currentArch.val
                  THEN "digest changed for local arch"
                  ELSE nil
        ELSE "missing digest for local arch"

\* ------------------------------------------------------- SrcDigest.Sync
\* the digests map Sync starts from: the existing file's map when the file
\* can be read and parsed, an empty map otherwise
CarryForward_Dropped(file) == NoDigests

CarryForward(file) ==
    IF ReadErr(file) \/ ParseErr(file) THEN NoDigests ELSE file.digests

\* the loop over manifest.Manifests
RECURSIVE ApplyManifests(_, _, _)
ApplyManifests(digests, ms, i) ==
    IF i > Len(ms) THEN digests
    ELSE LET arch == TrimSpace(ToLower(ms[i].arch))
         IN  ApplyManifests(
                 IF isValidArch(arch)
                 THEN [digests EXCEPT ![arch] = ms[i].digest]
                 ELSE digests,
                 ms, i + 1)

NewBaseline_ListKept(file, listDigest, ms, now) ==
    MultiArchMetadata(upstreamImage, factorioTag,
        IF file.kind = "record" THEN file.manifest_list ELSE listDigest,
        ApplyManifests(CarryForward(file), ms, 1), now)

NewBaseline_CarryOnlyOnChange(file, listDigest, ms, now) ==
    MultiArchMetadata(upstreamImage, factorioTag, listDigest,
        ApplyManifests(IF file.manifest_list = listDigest
                       THEN NoDigests ELSE CarryForward(file), ms, 1), now)

\* the record Sync builds in memory: repository, tag, the fetched
\* manifest-list digest, the merged digests map and the time of the call
NewBaseline(file, listDigest, ms, now) ==
    MultiArchMetadata(upstreamImage, factorioTag, listDigest,
        ApplyManifests(CarryForward(file), ms, 1), now)

SyncResult_NeedsPriorBaseline(file, up, now, fault) ==
    LET listDigest == getLocalManifestListDigest(up, fault)
        meta == NewBaseline(file, listDigest.val, up.manifests, now)
    IN  IF ensureDockerAvailable(fault) # nil
        THEN [err |-> ensureDockerAvailable(fault), file |-> file]
        ELSE IF fault = "pull"
        THEN [err |-> "failed to pull upstream image", file |-> file]
        ELSE IF listDigest.err # nil
        THEN [err |-> listDigest.err, file |-> file]
        ELSE IF fault = "manifest"
        THEN [err |-> "failed to inspect manifest", file |-> file]
        ELSE IF fault = "parse"
        THEN [err |-> "failed to parse manifest", file |-> file]
        ELSE IF ReadErr(file) \/ ParseErr(file)
        THEN [err |-> "failed to parse baseline", file |-> file]
        ELSE IF fault = "create"
        THEN [err |-> "failed to write baseline file", file |-> file]
        ELSE IF fault = "encode"
        THEN [err |-> "failed to encode baseline metadata", file |-> CorruptFile]
        ELSE [err |-> nil, file |-> meta]

SyncResult_WritesBeforeParse(file, up, now, fault) ==
    LET listDigest == getLocalManifestListDigest(up, fault)
        meta == NewBaseline(file, listDigest.val, up.manifests, now)
    IN  IF ensureDockerAvailable(fault) # nil
        THEN [err |-> ensureDockerAvailable(fault), file |-> file]
        ELSE IF fault = "pull"
        THEN [err |-> "failed to pull upstream image", file |-> file]
        ELSE IF listDigest.err # nil
        THEN [err |-> listDigest.err, file |-> file]
        ELSE IF fault = "manifest"
        THEN [err |-> "failed to inspect manifest", file |-> file]
        ELSE IF fault = "create"
        THEN [err |-> "failed to write baseline file", file |-> file]
        ELSE IF fault = "parse"
        THEN [err |-> "failed to parse manifest", file |-> CorruptFile]
        ELSE IF fault = "encode"
        THEN [err |-> "failed to encode baseline metadata", file |-> CorruptFile]
        ELSE [err |-> nil, file |-> meta]

\* the error Sync returns and the baseline file it leaves behind
SyncResult(file, up, now, fault) ==
    LET listDigest == getLocalManifestListDigest(up, fault)
        meta == NewBaseline(file, listDigest.val, up.manifests, now)
    IN  IF ensureDockerAvailable(fault) # nil
        THEN [err |-> ensureDockerAvailable(fault), file |-> file]
        ELSE IF fault = "pull"
        THEN [err |-> "failed to pull upstream image", file |-> file]
        ELSE IF listDigest.err # nil
        THEN [err |-> listDigest.err, file |-> file]
        ELSE IF fault = "manifest"
        THEN [err |-> "failed to inspect manifest", file |-> file]
        ELSE IF fault = "parse"
        THEN [err |-> "failed to parse manifest", file |-> file]
        ELSE IF fault = "create"
        THEN [err |-> "failed to write baseline file", file |-> file]
        ELSE IF fault = "encode"   \* os.Create has truncated the file
        THEN [err |-> "failed to encode baseline metadata", file |-> CorruptFile]
        ELSE [err |-> nil, file |-> meta]

\* -------------------------------------------------------- SrcDigest.All
\* strings.Contains(strings.ToLower(err.Error()), "no baseline")
ContainsNoBaseline(err) == err \in {"no baseline file found"}

SrcDigestAllResult_SyncsAlways(file, up, arch, now, cfault, sfault) ==
    LET err  == CompareErr(file, up, arch, cfault)
        sync == SyncResult(file, up, now, sfault)
    IN  IF err # nil /\ ContainsNoBaseline(err)
        THEN [cmp |-> err, syncRan |-> TRUE, file |-> sync.file,
              err |-> IF sync.err # nil THEN "initial sync failed" ELSE nil]
        ELSE [cmp |-> err, syncRan |-> TRUE, file |-> sync.file,
              err |-> IF sync.err # nil THEN "sync failed" ELSE nil]

SrcDigestAllResult_NotFoundReturned(file, up, arch, now, cfault, sfault) ==
    LET err  == CompareErr(file, up, arch, cfault)
        sync == SyncResult(file, up, now, sfault)
    IN  IF err # nil /\ ContainsNoBaseline(err)
        THEN [cmp |-> err, syncRan |-> TRUE, file |-> sync.file, err |-> err]
        ELSE IF err = nil
        THEN [cmp |-> err, syncRan |-> FALSE, file |-> file, err |-> nil]
        ELSE [cmp |-> err, syncRan |-> TRUE, file |-> sync.file,
              err |-> IF sync.err # nil THEN "sync failed" ELSE nil]

SrcDigestAllResult(file, up, arch, now, cfault, sfault) ==
    LET err  == CompareErr(file, up, arch, cfault)
        sync == SyncResult(file, up, now, sfault)
    IN  IF err # nil /\ ContainsNoBaseline(err)
        THEN [cmp |-> err, syncRan |-> TRUE, file |-> sync.file,
              err |-> IF sync.err # nil THEN "initial sync failed" ELSE nil]
        ELSE IF err = nil
        THEN [cmp |-> err, syncRan |-> FALSE, file |-> file, err |-> nil]
        ELSE [cmp |-> err, syncRan |-> TRUE, file |-> sync.file,
              err |-> IF sync.err # nil THEN "sync failed" ELSE nil]

\* ------------------------------------------------------------- actions
Show ==
    /\ op' = "Show"
    /\ ret' = ShowErr(baseline)
    /\ cmpRet' = nil
    /\ syncRan' = FALSE
    /\ UNCHANGED <<upstream, clock, baseline, hardenedVars, concVars, toolVars>>

Compare_RefreshesBaseline ==
    \E fault \in CompareFaults :
        /\ op' = "Compare"
        /\ ret' = CompareErr(baseline, upstream, getLocalArch, fault)
        /\ cmpRet' = ret'
        /\ syncRan' = FALSE
        /\ baseline' = IF baseline.kind = "record" /\ fault = "none"
                       THEN [baseline EXCEPT !.manifest_list = upstream.list]
                       ELSE baseline
        /\ UNCHANGED <<upstream, clock, hardenedVars, concVars, toolVars>>

Compare ==
    \E fault \in CompareFaults :
        /\ op' = "Compare"
        /\ ret' = CompareErr(baseline, upstream, getLocalArch, fault)
        /\ cmpRet' = ret'
        /\ syncRan' = FALSE
        /\ UNCHANGED <<upstream, clock, baseline, hardenedVars, concVars, toolVars>>

Sync ==
    \E fault \in SyncFaults :
        LET r == SyncResult(baseline, upstream, clock, fault)
        IN  /\ op' = "Sync"
            /\ ret' = r.err
            /\ baseline' = r.file
            /\ cmpRet' = nil
            /\ syncRan' = TRUE
            /\ UNCHANGED <<upstream, clock, hardenedVars, concVars, toolVars>>

SrcDigestAll ==
    \E cfault \in CompareFaults, sfault \in SyncFaults :
        LET r == SrcDigestAllResult(baseline, upstream, getLocalArch, clock, cfault, sfault)
        IN  /\ op' = "All"
            /\ ret' = r.err
            /\ baseline' = r.file
            /\ cmpRet' = r.cmp
            /\ syncRan' = r.syncRan
            /\ UNCHANGED <<upstream, clock, hardenedVars, concVars, toolVars>>

\* op, ret, cmpRet and syncRan describe the last operation that returned
\* since upstream last changed
Forget ==
    /\ op' = "none"
    /\ ret' = nil
    /\ cmpRet' = nil
    /\ syncRan' = FALSE

\* the environment: the registry publishes another manifest list ...
SetList ==
    \E l \in ListDigests \ {upstream.list} :
        /\ upstream' = [upstream EXCEPT !.list = l]
        /\ Forget
        /\ UNCHANGED <<clock, baseline, hardenedVars, concVars, toolVars>>

PushEntry ==
    \E e \in ManifestEntries :
        /\ Len(upstream.manifests) < MaxManifest
        /\ upstream' = [upstream EXCEPT !.manifests = Append(@, e)]
        /\ Forget
        /\ UNCHANGED <<clock, baseline, hardenedVars, concVars, toolVars>>

PopEntry ==
    /\ Len(upstream.manifests) > 0
    /\ upstream' = [upstream EXCEPT !.manifests = SubSeq(@, 1, Len(@) - 1)]
    /\ Forget
    /\ UNCHANGED <<clock, baseline, hardenedVars, concVars, toolVars>>

\* ... and time passes
Tick ==
    /\ clock < MaxClock
    /\ clock' = clock + 1
    /\ UNCHANGED <<upstream, baseline, op, ret, cmpRet, syncRan, hardenedVars, concVars, toolVars>>

\* ================================================================ Hardened
AbsentArtifact == [kind |-> "absent"]

\* ------------------------------------------- docker/hardened.Dockerfile
\* a line of a Dockerfile; repository and digest are the arguments of the
\* format "FROM %s@%s AS base" and empty for every other line
Line(text) == [text |-> text, repository |-> "", digest |-> ""]

\* fmt.Sprintf("FROM %s@%s AS base", meta.Repository, digest)
PinnedFrom(repo, digest) ==
    [text |-> "FROM %s@%s AS base", repository |-> repo, digest |-> digest]

L_FromDigestArg   == "FROM factoriotools/factorio@${BASE_IMAGE_DIGEST} AS base"
L_FromTag         == "FROM factoriotools/factorio:stable AS base"
L_FromTagIndented == "  FROM factoriotools/factorio:stable AS base"
L_FromPlatform    == "FROM --platform=linux/amd64 factoriotools/factorio:stable AS base"
L_User            == "USER root"
L_InitStage       == "FROM busybox:1.36 AS init-config"
L_FromBase        == "FROM base"
L_Copy            == "COPY --from=init-config /defaults/config /factorio/config/"
L_CopyIndented    == "  COPY --from=init-config /defaults/config /factorio/config/"
L_CopyChown       ==
    "COPY --chown=factorio:factorio --from=init-config /defaults/config /factorio/config/"

\* the stages of the template of the repository
RepoTemplate ==
    << Line(L_FromDigestArg), Line(L_User), Line(L_InitStage),
       Line(L_FromBase), Line(L_CopyChown) >>

\* the template files Prepare may find at hardenedDockerfile
Templates ==
    { RepoTemplate,
      << Line(L_FromTag), Line(L_FromBase), Line(L_Copy) >>,
      << Line(L_FromTagIndented), Line(L_FromBase), Line(L_CopyIndented) >>,
      << Line(L_FromTag), Line(L_FromBase), Line(L_CopyChown) >>,
      << Line(L_FromPlatform), Line(L_InitStage), Line(L_FromBase), Line(L_Copy) >>,
      << Line(L_FromTag), Line(L_User) >>,
      << Line(L_FromTag), Line(L_FromDigestArg), Line(L_InitStage),
         Line(L_FromBase), Line(L_Copy) >> }

\* strings.HasPrefix on the lines of the model (after strings.TrimSpace)
HasPrefix(s, prefix) ==
    /\ prefix = "FROM factoriotools/factorio"
    /\ s \in {L_FromDigestArg, L_FromTag}

\* strings.Contains on one line of the model
Contains(s, substr) ==
    \/ substr = "AS init-config" /\ s = L_InitStage
    \/ substr = "COPY --from=init-config" /\ s \in {L_Copy, L_CopyIndented}

\* the part of a line before and from the first "COPY --from=init-config"
BeforeCopy(s) == IF s = L_CopyIndented THEN "  " ELSE ""
FromCopy(s)   == IF s = L_CopyIndented THEN L_Copy ELSE s

\* the loop over the lines of the template: every line that starts with
\* "FROM factoriotools/factorio" becomes the pinned FROM line
RewriteFrom(lines, repo, digest) ==
    [i \in 1..Len(lines) |->
        IF HasPrefix(TrimSpace(lines[i].text), "FROM factoriotools/factorio")
        THEN PinnedFrom(repo, digest)
        ELSE lines[i]]

\* the lines of initStage between its first and its last line break
initStage ==
    << Line("# Init stage: prepares default Factorio configuration files"),
       Line(L_InitStage),
       Line("WORKDIR /defaults/config"),
       Line("RUN set -eux; \\"),
       Line("    mkdir -p /defaults/config && \\"),
       Line("    echo \"[path]\" > /defaults/config/config.ini && \\"),
       Line("    echo \"read-data=/opt/factorio/data\" >> /defaults/config/config.ini && \\"),
       Line("    echo \"write-data=/factorio\" >> /defaults/config/config.ini") >>

\* strings.Index(newContent, substr) as the line of the first occurrence
\* (0 when there is none)
IndexLine(lines, substr) ==
    IF \E i \in 1..Len(lines) : Contains(lines[i].text, substr)
    THEN CHOOSE i \in 1..Len(lines) :
            /\ Contains(lines[i].text, substr)
            /\ \A j \in 1..(i - 1) : ~Contains(lines[j].text, substr)
    ELSE 0

\* insertPoint > 0: there is an occurrence and it is not the first byte
InsertPointPositive(lines) ==
    LET i == IndexLine(lines, "COPY --from=init-config")
    IN  i > 0 /\ ~(i = 1 /\ BeforeCopy(lines[1].text) = "")

\* "Ensure init-config stage exists": newContent[:insertPoint] + initStage
\* + "\n" + newContent[insertPoint:] when the stage is missing and an
\* insertion point was found
EnsureInitStage(lines) ==
    LET i == IndexLine(lines, "COPY --from=init-config")
    IN  IF \E k \in 1..Len(lines) : Contains(lines[k].text, "AS init-config")
        THEN lines
        ELSE IF InsertPointPositive(lines)
        THEN SubSeq(lines, 1, i - 1)
               \o << Line(BeforeCopy(lines[i].text)) >>
               \o initStage
               \o << Line("") >>
               \o << Line(FromCopy(lines[i].text)) >>
               \o SubSeq(lines, i + 1, Len(lines))
        ELSE lines

\* ------------------------------------------------------- the environment
\* os.Getenv of the variables the targets read
Envs == [VERSION : {"", "9.9.9"}, KYVERNO_TEST : {"", "TRUE"}, REPORT : {"", "true"}]

\* fmt.Sprintf("%s:%s", imageRepo, version)
ImageTag(repo, version) == [repo |-> repo, version |-> version]
NoTag == ImageTag("", "")

TargetTag_IgnoresVersion(e) == ImageTag(imageRepo, "dev")

\* the tag Build, testBuild, Verify and Promote compute from VERSION
TargetTag(e) == ImageTag(imageRepo, IF e.VERSION = "" THEN "dev" ELSE e.VERSION)

NoTags == [Build |-> NoTag, Verify |-> NoTag, Promote |-> NoTag]

\* ------------------------------------------------------ Hardened.Prepare
\* the version the probe reads from the base image
DetectedVersion == "2.0.69"
ProbeOutcomes == {"ok", "timeout", "failed", "noversion"}

getFactorioVersion(probe) ==
    IF probe = "timeout"
    THEN [val |-> "", err |-> "timeout while getting Factorio version"]
    ELSE IF probe = "failed"
    THEN [val |-> "", err |-> "failed to extract Factorio version"]
    ELSE IF probe = "noversion"
    THEN [val |-> "", err |-> "Factorio version not found in output"]
    ELSE [val |-> DetectedVersion, err |-> nil]

PrepareFaults == {"none", "template", "write", "meta"}

\* what a run has met and printed: the outcome of the version probe
\* ("none" before it ran), whether the write of buildmeta.json failed,
\* whether the warning about the insertion point was printed, and whether
\* what trivy met ("unused" before the scan)
NoDiag == [probe |-> "none", metaErr |-> FALSE, warned |-> FALSE, trivy |-> "unused"]

\* "Warning: could not locate insertion point for init-config stage."
InsertionWarning(lines) ==
    /\ ~\E k \in 1..Len(lines) : Contains(lines[k].text, "AS init-config")
    /\ ~InsertPointPositive(lines)

PrepareWrites_ProbeFatal(file, arch, probe, fault, tmpl, now, oldPinned, oldMeta) ==
    LET digest  == file.digests[arch]
        probed  == getFactorioVersion(probe)
        version == probed.val
        rewritten == RewriteFrom(tmpl, file.repository, digest)
        unchanged(e) == [err |-> e, pinned |-> oldPinned, meta |-> oldMeta,
                         probe |-> probe, metaErr |-> FALSE, warned |-> FALSE]
    IN  IF probed.err # nil THEN unchanged(probed.err)
        ELSE IF fault = "template" THEN unchanged("failed to read template Dockerfile")
        ELSE IF fault = "write"
        THEN [unchanged("failed to write pinned Dockerfile")
                 EXCEPT !.warned = InsertionWarning(rewritten)]
        ELSE [err |-> nil,
              pinned |-> [kind |-> "file", lines |-> EnsureInitStage(rewritten)],
              meta |-> IF fault = "meta"
                       THEN oldMeta
                       ELSE [kind |-> "file", BaseDigest |-> digest,
                             Arch |-> arch, Version |-> version,
                             Tag |-> ImageTag(imageRepo, version),
                             BuiltAt |-> now],
              probe |-> probe,
              metaErr |-> fault = "meta",
              warned |-> InsertionWarning(rewritten)]

PrepareWrites_NoInsertionPointFatal(file, arch, probe, fault, tmpl, now, oldPinned, oldMeta) ==
    LET digest  == file.digests[arch]
        probed  == getFactorioVersion(probe)
        version == IF probed.err # nil THEN "unknown" ELSE probed.val
        rewritten == RewriteFrom(tmpl, file.repository, digest)
        unchanged(e) == [err |-> e, pinned |-> oldPinned, meta |-> oldMeta,
                         probe |-> probe, metaErr |-> FALSE, warned |-> FALSE]
    IN  IF fault = "template" THEN unchanged("failed to read template Dockerfile")
        ELSE IF InsertionWarning(rewritten)
        THEN unchanged("could not locate insertion point for init-config stage")
        ELSE IF fault = "write" THEN unchanged("failed to write pinned Dockerfile")
        ELSE [err |-> nil,
              pinned |-> [kind |-> "file", lines |-> EnsureInitStage(rewritten)],
              meta |-> IF fault = "meta"
                       THEN oldMeta
                       ELSE [kind |-> "file", BaseDigest |-> digest,
                             Arch |-> arch, Version |-> version,
                             Tag |-> ImageTag(imageRepo, version),
                             BuiltAt |-> now],
              probe |-> probe,
              metaErr |-> fault = "meta",
              warned |-> FALSE]

\* Prepare once it has the digest of the local architecture: the version
\* probe, the template, the pinned Dockerfile and the build metadata
PrepareWrites(file, arch, probe, fault, tmpl, now, oldPinned, oldMeta) ==
    LET digest  == file.digests[arch]
        probed  == getFactorioVersion(probe)
        version == IF probed.err # nil THEN "unknown" ELSE probed.val
        rewritten == RewriteFrom(tmpl, file.repository, digest)
        unchanged(e) == [err |-> e, pinned |-> oldPinned, meta |-> oldMeta,
                         probe |-> probe, metaErr |-> FALSE, warned |-> FALSE]
    IN  IF fault = "template" THEN unchanged("failed to read template Dockerfile")
        ELSE IF fault = "write"
        THEN [unchanged("failed to write pinned Dockerfile")
                 EXCEPT !.warned = InsertionWarning(rewritten)]
        ELSE [err |-> nil,
              pinned |-> [kind |-> "file", lines |-> EnsureInitStage(rewritten)],
              meta |-> IF fault = "meta"      \* the write error is dropped
                       THEN oldMeta
                       ELSE [kind |-> "file", BaseDigest |-> digest,
                             Arch |-> arch, Version |-> version,
                             Tag |-> ImageTag(imageRepo, version),
                             BuiltAt |-> now],
              probe |-> probe,
              metaErr |-> fault = "meta",
              warned |-> InsertionWarning(rewritten)]

PrepareResult_NoArchCheck(file, arch, probe, fault, tmpl, now, oldPinned, oldMeta) ==
    LET unchanged(e) == [err |-> e, pinned |-> oldPinned, meta |-> oldMeta,
                         probe |-> "none", metaErr |-> FALSE, warned |-> FALSE]
    IN  IF ReadErr(file) THEN unchanged("failed to read baseline file")
        ELSE IF ParseErr(file) THEN unchanged("failed to parse baseline")
        ELSE PrepareWrites(file, arch, probe, fault, tmpl, now, oldPinned, oldMeta)

\* Hardened.Prepare: the error it returns, the two files it leaves and
\* what it met and printed
PrepareResult(file, arch, probe, fault, tmpl, now, oldPinned, oldMeta) ==
    LET unchanged(e) == [err |-> e, pinned |-> oldPinned, meta |-> oldMeta,
                         probe |-> "none", metaErr |-> FALSE, warned |-> FALSE]
    IN  IF ReadErr(file) THEN unchanged("failed to read baseline file")
        ELSE IF ParseErr(file) THEN unchanged("failed to parse baseline")
        ELSE IF file.digests[arch] = Missing
        THEN unchanged("no digest found for architecture")
        ELSE PrepareWrites(file, arch, probe, fault, tmpl, now, oldPinned, oldMeta)

\* the diagnostics of a run after its Prepare
PrepareDiag(r) ==
    [diag EXCEPT !.probe = r.probe, !.metaErr = r.metaErr, !.warned = r.warned]

\* ------------------------------------------------------- Hardened.Verify
\* strings.ToLower(os.Getenv("KYVERNO_TEST")) == "true"
KyvernoEnabled(e) == ToLower(e.KYVERNO_TEST) = "true"

\* Hardened.Verify: the sub-checks in their order; each argument tells
\* whether the check passes, kyvernoTest whether KYVERNO_TEST is "true"
VerifyErr(nonRoot, scan, readOnly, kyvernoTest, kyverno) ==
    IF ~nonRoot THEN "image runs as root"
    ELSE IF ~scan THEN "vulnerability scan failed"
    ELSE IF ~readOnly THEN "container failed to start in read-only mode"
    ELSE IF kyvernoTest /\ ~kyverno THEN "Kyverno restricted policy check failed"
    ELSE nil

\* Trivy.ScanImage: without trivy in PATH the scan is skipped and nil is
\* returned; otherwise the exit code of trivy decides
ScanImage(installed, runOk) ==
    IF ~installed THEN nil
    ELSE IF ~runOk THEN "fixable critical vulnerabilities detected in image"
    ELSE nil

\* Trivy.Report: the report needs trivy
Report(installed, runOk) ==
    IF ~installed THEN "Trivy not found in PATH; please install it to generate reports"
    ELSE IF ~runOk THEN "failed to generate Trivy report"
    ELSE nil

\* what trivy meets on the host and in the image: it is not in PATH
\* ("missing"), it cannot complete its run ("broken"), or it completes and
\* the image has no vulnerability ("clean"), a fixable critical one
\* ("critical"), or only vulnerabilities that are unfixed or below critical
\* ("other")
TrivyOutcomes == {"missing", "broken", "clean", "critical", "other"}

\* the quick scan's command: --severity CRITICAL --ignore-unfixed
\* --exit-code 1, so a finding of that kind makes the command fail
ScanExitOk(outcome) == outcome \in {"clean", "other"}

\* the report's command: no --exit-code, so findings do not make it fail
ReportExitOk(outcome) == outcome \in {"clean", "critical", "other"}

\* whether the trivy command trivyScan ends up running exits with status 0
TrivyRunOk(e, outcome) ==
    IF ToLower(e.REPORT) = "true" THEN ReportExitOk(outcome) ELSE ScanExitOk(outcome)

trivyScan_AlwaysGate(e, installed, runOk) == ScanImage(installed, runOk)

\* trivyScan: the full report when REPORT is "true", the quick scan otherwise
trivyScan(e, installed, runOk) ==
    IF ToLower(e.REPORT) = "true"
    THEN Report(installed, runOk)
    ELSE ScanImage(installed, runOk)

Check(name, ok) == [name |-> name, ok |-> ok]

VerifyChecks_NoFailFast(nonRoot, scan, readOnly, kyvernoTest, kyverno) ==
    << Check("checkNonRoot", nonRoot), Check("trivyScan", scan),
       Check("checkReadOnlyRuntime", readOnly) >>
    \o (IF kyvernoTest
        THEN << Check("verifyKyvernoCompliance", kyverno) >> ELSE << >>)

\* the sub-checks Verify calls, in the order of the calls, each with
\* whether it returned nil
VerifyChecks(nonRoot, scan, readOnly, kyvernoTest, kyverno) ==
    << Check("checkNonRoot", nonRoot) >>
    \o (IF ~nonRoot THEN << >>
        ELSE << Check("trivyScan", scan) >>
    \o (IF ~scan THEN << >>
        ELSE << Check("checkReadOnlyRuntime", readOnly) >>
    \o (IF ~readOnly \/ ~kyvernoTest THEN << >>
        ELSE << Check("verifyKyvernoCompliance", kyverno) >>)))

\* -------------------------------------------------------- Hardened.Clean
\* Hardened.Clean: removes outputDockerfile when it exists; a failing
\* removal is printed, the returned error is always nil
CleanResult(oldPinned, removeOk) ==
    [err |-> nil,
     warned |-> oldPinned.kind # "absent" /\ ~removeOk,
     pinned |-> IF oldPinned.kind # "absent" /\ removeOk
                THEN AbsentArtifact ELSE oldPinned]

\* ---------------------------------------------------------- Hardened.All
\* Hardened.All: the stage that follows a stage
NextStage(stage) ==
    CASE stage = "Prepare" -> "Build"
      [] stage = "Build"   -> "Verify"
      [] stage = "Verify"  -> "Promote"
      [] stage = "Promote" -> "Clean"
      [] stage = "Clean"   -> "done"

StageFailed(stage) ==
    CASE stage = "Prepare"   -> "prepare stage failed"
      [] stage = "Build"     -> "build stage failed"
      [] stage = "testBuild" -> "build stage failed"
      [] stage = "Verify"    -> "verification stage failed"
      [] stage = "Promote"   -> "promotion stage failed"

AllStep_VerifyNotGated(stage, err) ==
    IF stage = "Clean" THEN [pc |-> "done", ret |-> nil]
    ELSE IF err # nil /\ stage # "Verify" THEN [pc |-> "done", ret |-> StageFailed(stage)]
    ELSE [pc |-> NextStage(stage), ret |-> "running"]

AllStep_CleanAfterFailure(stage, err) ==
    IF stage = "Clean" THEN [pc |-> "done", ret |-> nil]
    ELSE IF err # nil THEN [pc |-> "Clean", ret |-> StageFailed(stage)]
    ELSE [pc |-> NextStage(stage), ret |-> "running"]

AllStep_PromoteErrorDropped(stage, err) ==
    IF stage = "Clean" THEN [pc |-> "done", ret |-> nil]
    ELSE IF err # nil /\ stage # "Promote" THEN [pc |-> "done", ret |-> StageFailed(stage)]
    ELSE [pc |-> NextStage(stage), ret |-> "running"]

\* Hardened.All after a stage returned err: where it goes on and what it
\* returns; an error of Clean is printed as a warning
AllStep(stage, err) ==
    IF stage = "Clean" THEN [pc |-> "done", ret |-> nil]
    ELSE IF err # nil THEN [pc |-> "done", ret |-> StageFailed(stage)]
    ELSE [pc |-> NextStage(stage), ret |-> "running"]

\* --------------------------------------------------------- Hardened.Test
TestStep_BuildNotGated(stage, err) ==
    IF err # nil /\ stage # "testBuild" THEN [pc |-> "done", ret |-> StageFailed(stage)]
    ELSE CASE stage = "Prepare"   -> [pc |-> "testBuild", ret |-> "running"]
           [] stage = "testBuild" -> [pc |-> "Verify", ret |-> "running"]
           [] stage = "Verify"    -> [pc |-> "done", ret |-> nil]

\* Hardened.Test after a stage returned err
TestStep(stage, err) ==
    IF err # nil THEN [pc |-> "done", ret |-> StageFailed(stage)]
    ELSE CASE stage = "Prepare"   -> [pc |-> "testBuild", ret |-> "running"]
           [] stage = "testBuild" -> [pc |-> "Verify", ret |-> "running"]
           [] stage = "Verify"    -> [pc |-> "done", ret |-> nil]

\* the target that is running goes on after a stage returned err
Ran(stage, err) ==
    LET step == IF mode = "Test" THEN TestStep(stage, err) ELSE AllStep(stage, err)
    IN  /\ invoked' = Append(invoked, stage)
        /\ failedStage' = IF err # nil THEN stage ELSE failedStage
        /\ stageErr' = err
        /\ pc' = step.pc
        /\ allRet' = step.ret

\* files and registry: what a pipeline run leaves outside the process
artifactVars == <<pinned, buildmeta, registry>>

Start(m) ==
    /\ pc \in {"idle", "done"}
    /\ mode' = m
    /\ pc' = "Prepare"
    /\ invoked' = << >>
    /\ failedStage' = "none"
    /\ stageErr' = nil
    /\ cleanWarned' = FALSE
    /\ allRet' = "running"
    /\ checks' = << >>
    /\ tags' = NoTags
    /\ diag' = NoDiag
    /\ env' \in Envs
    /\ UNCHANGED <<baseline, template, artifactVars, digestVars, concVars, toolVars>>

AllStart == Start("All")

TestStart == Start("Test")

Prepare ==
    /\ pc = "Prepare"
    /\ \E probe \in ProbeOutcomes, fault \in PrepareFaults :
        LET r == PrepareResult(baseline, GOARCH, probe, fault, template, clock,
                               pinned, buildmeta)
        IN  /\ pinned' = r.pinned
            /\ buildmeta' = r.meta
            /\ diag' = PrepareDiag(r)
            /\ Ran("Prepare", r.err)
    /\ UNCHANGED <<baseline, template, env, mode, cleanWarned, checks, tags,
                   registry, digestVars, concVars, toolVars>>

Build ==
    /\ pc = "Build"
    /\ \E ok \in BOOLEAN :
        Ran("Build", IF ok THEN nil ELSE "failed to build image")
    /\ tags' = [tags EXCEPT !.Build = TargetTag(env)]
    /\ UNCHANGED <<baseline, template, env, mode, diag, cleanWarned, checks,
                   artifactVars, digestVars, concVars, toolVars>>

\* buildx build --load: the image goes to the local image store only
testBuild ==
    /\ pc = "testBuild"
    /\ \E ok \in BOOLEAN :
        Ran("testBuild", IF ok THEN nil ELSE "failed to build image")
    /\ tags' = [tags EXCEPT !.Build = TargetTag(env)]
    /\ UNCHANGED <<baseline, template, env, mode, diag, cleanWarned, checks,
                   artifactVars, digestVars, concVars, toolVars>>

Verify ==
    /\ pc = "Verify"
    /\ \E nonRoot, readOnly, kyverno \in BOOLEAN, outcome \in TrivyOutcomes :
        LET scan == trivyScan(env, outcome # "missing", TrivyRunOk(env, outcome)) = nil
        IN  /\ Ran("Verify", VerifyErr(nonRoot, scan, readOnly, KyvernoEnabled(env), kyverno))
            /\ checks' = VerifyChecks(nonRoot, scan, readOnly, KyvernoEnabled(env), kyverno)
            /\ diag' = IF nonRoot THEN [diag EXCEPT !.trivy = outcome] ELSE diag
    /\ tags' = [tags EXCEPT !.Verify = TargetTag(env)]
    /\ UNCHANGED <<baseline, template, env, mode, cleanWarned,
                   artifactVars, digestVars, concVars, toolVars>>

\* docker push tag
Promote ==
    /\ pc = "Promote"
    /\ \E ok \in BOOLEAN :
        /\ Ran("Promote", IF ok THEN nil ELSE "promotion failed")
        /\ registry' = IF ok THEN registry \cup {TargetTag(env)} ELSE registry
    /\ tags' = [tags EXCEPT !.Promote = TargetTag(env)]
    /\ UNCHANGED <<baseline, template, env, mode, diag, cleanWarned, checks,
                   pinned, buildmeta, digestVars, concVars, toolVars>>

Clean ==
    /\ pc = "Clean"
    /\ \E removeOk \in BOOLEAN :
        LET r == CleanResult(pinned, removeOk)
        IN  /\ pinned' = r.pinned
            /\ cleanWarned' = r.warned
            /\ Ran("Clean", r.err)
    /\ UNCHANGED <<baseline, template, env, mode, diag, checks, tags,
                   buildmeta, registry, digestVars, concVars, toolVars>>

HardenedInit ==
    /\ pc = "idle"
    /\ mode = "All"
    /\ invoked = << >>
    /\ failedStage = "none"
    /\ stageErr = nil
    /\ cleanWarned = FALSE
    /\ allRet = nil
    /\ checks = << >>
    /\ tags = NoTags
    /\ env = [VERSION |-> "", KYVERNO_TEST |-> "", REPORT |-> ""]
    /\ diag = NoDiag
    /\ template \in Templates
    /\ pinned = AbsentArtifact
    /\ buildmeta = AbsentArtifact
    /\ registry = {}

DigestInit ==
    /\ upstream = [list |-> "sha256:ccc",
                   manifests |-> << [arch |-> "amd64", digest |-> "sha256:aaa"],
                                    [arch |-> "arm64", digest |-> "sha256:bbb"] >>]
    /\ clock = 1
    /\ baseline \in InitFiles
    /\ op = "none"
    /\ ret = nil
    /\ cmpRet = nil
    /\ syncRan = FALSE

\* --------------------------------------------- environment verification
\* the state of a tool on the host: usable, not in PATH, or in PATH but
\* failing its check (golangci-lint built with an older Go)
LintStates  == {"ok", "absent", "stale"}
TrivyStates == {"ok", "absent"}

\* a development host: whether System.Verify, Go.Verify and Docker.Verify
\* pass, the state of the two tools, whether the GitHub token loads and is
\* valid, and whether its scopes, the repository access and the identity
\* check pass
Hosts ==
    [System : BOOLEAN, Go : BOOLEAN, Docker : BOOLEAN, Lint : LintStates,
     Trivy : TrivyStates, GitHubToken : BOOLEAN, GitHubAccess : BOOLEAN]

verifyLinter(st) ==
    IF st = "absent" THEN "golangci-lint not found in PATH"
    ELSE IF st = "stale" THEN "golangci-lint built with older Go"
    ELSE nil

verifyTrivy(st) == IF st = "absent" THEN "Trivy not found in PATH" ELSE nil

\* Github.Verify: the token loads and is valid
GithubVerify(h) == h.GitHubToken

\* Github.ValidateAll: Verify, then EnsurePATScopes, VerifyRepoAccess and
\* Whoami, each of which needs the token
GithubValidateAll(h) == GithubVerify(h) /\ h.GitHubAccess

\* whether the check function of a step returns nil on host h
CheckPasses(check, h) ==
    IF check = "System.Verify" THEN h.System
    ELSE IF check = "Go.Verify" THEN h.Go
    ELSE IF check = "Docker.Verify" THEN h.Docker
    ELSE IF check = "Lint.Verify" THEN verifyLinter(h.Lint) = nil
    ELSE IF check = "Trivy.Verify" THEN verifyTrivy(h.Trivy) = nil
    ELSE IF check = "Github.Verify" THEN GithubVerify(h)
    ELSE GithubValidateAll(h)

Step(name, check) == [name |-> name, check |-> check]

\* the steps of Verify.All
AllSteps ==
    << Step("System tools and permissions", "System.Verify"),
       Step("Go toolchain", "Go.Verify"),
       Step("Docker installation and authentication", "Docker.Verify"),
       Step("GolangCI-Lint installation", "Lint.Verify"),
       Step("Trivy vulnerability scanner", "Trivy.Verify"),
       Step("GitHub authentication and token scopes", "Github.ValidateAll") >>

\* the systems of Verify.Summary
SummarySystems ==
    << Step("System", "System.Verify"),
       Step("Go", "Go.Verify"),
       Step("Docker", "Docker.Verify"),
       Step("Lint", "Lint.Verify"),
       Step("Trivy", "Trivy.Verify"),
       Step("GitHub", "Github.Verify") >>

\* a step that was run, with whether its function returned nil
RanStep(step, h) ==
    [name |-> step.name, check |-> step.check, ok |-> CheckPasses(step.check, h)]

NotRun == [ran |-> << >>, err |-> "not run"]

VerifyAllResult_NoFailFast(h) ==
    LET ran == [i \in 1..Len(AllSteps) |-> RanStep(AllSteps[i], h)]
        bad == {i \in 1..Len(ran) : ~ran[i].ok}
    IN  [ran |-> ran,
         err |-> IF bad = {} THEN nil
                 ELSE ran[CHOOSE i \in bad : \A j \in bad : i <= j].name]

\* Verify.All: the loop returns at the first step whose function fails,
\* with an error that begins with the name of the step
RECURSIVE VerifyAllFrom(_, _, _)
VerifyAllFrom(h, i, ran) ==
    IF i > Len(AllSteps) THEN [ran |-> ran, err |-> nil]
    ELSE LET r == RanStep(AllSteps[i], h)
         IN  IF ~r.ok THEN [ran |-> Append(ran, r), err |-> r.name]
             ELSE VerifyAllFrom(h, i + 1, Append(ran, r))

VerifyAllResult(h) == VerifyAllFrom(h, 1, << >>)

\* Verify.Summary: the loop runs every system and remembers whether all
\* passed
VerifySummaryResult(h) ==
    LET ran == [i \in 1..Len(SummarySystems) |-> RanStep(SummarySystems[i], h)]
    IN  [ran |-> ran,
         err |-> IF \A i \in 1..Len(ran) : ran[i].ok THEN nil
                 ELSE "one or more systems reported issues"]

NoChecks == [all |-> NotRun, summary |-> NotRun]

VerifyAll ==
    /\ envcheck' = [envcheck EXCEPT !.all = VerifyAllResult(host)]
    /\ UNCHANGED <<baseline, host, deps, digestVars, hardenedVars, concVars>>

VerifySummary ==
    /\ envcheck' = [envcheck EXCEPT !.summary = VerifySummaryResult(host)]
    /\ UNCHANGED <<baseline, host, deps, digestVars, hardenedVars, concVars>>

\* ------------------------------------------------- Lint.Deps, Trivy.Deps
\* how an installer ends: with an error, with the tool usable, or without
\* an error and the tool as unverifiable as before
InstallOutcomes == {"failed", "installed", "unusable"}

Call(name, ok) == [call |-> name, ok |-> ok]

ToolVerify(tool, st) == IF tool = "Lint" THEN verifyLinter(st) ELSE verifyTrivy(st)

DepsResult_NoReverify(tool, st, outcome) ==
    IF ToolVerify(tool, st) = nil
    THEN [err |-> nil, calls |-> << Call("Verify", TRUE) >>, st |-> st]
    ELSE IF outcome = "failed"
    THEN [err |-> "failed to install",
          calls |-> << Call("Verify", FALSE), Call("install", FALSE) >>, st |-> st]
    ELSE [err |-> nil,
          calls |-> << Call("Verify", FALSE), Call("install", TRUE) >>,
          st |-> IF outcome = "installed" THEN "ok" ELSE st]

\* Lint.Deps and Trivy.Deps: Verify; when it fails the installer; when the
\* installer returns nil Verify again, whose error is the result
DepsResult(tool, st, outcome) ==
    IF ToolVerify(tool, st) = nil
    THEN [err |-> nil, calls |-> << Call("Verify", TRUE) >>, st |-> st]
    ELSE IF outcome = "failed"
    THEN [err |-> "failed to install",
          calls |-> << Call("Verify", FALSE), Call("install", FALSE) >>, st |-> st]
    ELSE LET st2 == IF outcome = "installed" THEN "ok" ELSE st
             again == ToolVerify(tool, st2)
         IN  [err |-> IF again # nil
                      THEN "installation did not verify successfully" ELSE nil,
              calls |-> << Call("Verify", FALSE), Call("install", TRUE),
                           Call("Verify", again = nil) >>,
              st |-> st2]

NoDeps == [who |-> "none", calls |-> << >>, err |-> nil]

\* one Deps target; envcheck is about the host as it is, so it is emptied
\* when the installer changed the host
Deps(tool) ==
    \E outcome \in InstallOutcomes :
        LET r == DepsResult(tool, host[tool], outcome)
        IN  /\ deps' = [who |-> tool, calls |-> r.calls, err |-> r.err]
            /\ host' = [host EXCEPT ![tool] = r.st]
            /\ envcheck' = IF host' = host THEN envcheck ELSE NoChecks
            /\ UNCHANGED <<baseline, digestVars, hardenedVars, concVars>>

LintDeps == Deps("Lint")

TrivyDeps == Deps("Trivy")

\* a host whose tools are in place, on which no target of this section ran
ToolInit ==
    /\ host = [System |-> TRUE, Go |-> TRUE, Docker |-> TRUE, Lint |-> "ok",
               Trivy |-> "ok", GitHubToken |-> TRUE, GitHubAccess |-> TRUE]
    /\ envcheck = NoChecks
    /\ deps = NoDeps

\* a Sync taken step by step has not begun, nobody has read the file
ConcInit ==
    /\ syncPc = "idle"
    /\ pending = [meta |-> AbsentFile, prior |-> "absent"]
    /\ reader = [who |-> "none", err |-> nil, during |-> FALSE, prior |-> "absent"]
    /\ ToolInit

Init == DigestInit /\ HardenedInit /\ template = RepoTemplate /\ ConcInit

Next ==
    \/ Show
    \/ Compare
    \/ Sync
    \/ SrcDigestAll
    \/ SetList
    \/ PushEntry
    \/ PopEntry
    \/ Tick

Spec == Init /\ [][Next]_vars

\* the full pipeline, run again and again on one host
HardenedNext ==
    \/ AllStart
    \/ Prepare
    \/ Build
    \/ Verify
    \/ Promote
    \/ Clean

\* any of the templates may be the one on disk
InitHardened == DigestInit /\ HardenedInit /\ ConcInit

SpecHardened == InitHardened /\ [][HardenedNext]_vars

\* the Test target, run again and again on one host
TestNext ==
    \/ TestStart
    \/ Prepare
    \/ testBuild
    \/ Verify

SpecTest == InitHardened /\ [][TestNext]_vars

\* both targets on one host, one run after the other in any order
PipelinesNext == HardenedNext \/ TestNext

SpecPipelines == InitHardened /\ [][PipelinesNext]_vars

\* the environment targets on any host
EnvNext ==
    \/ VerifyAll
    \/ VerifySummary
    \/ LintDeps
    \/ TrivyDeps

InitEnv ==
    /\ host \in Hosts
    /\ envcheck = NoChecks
    /\ deps = NoDeps
    /\ upstream = [list |-> "sha256:ccc", manifests |-> << >>]
    /\ clock = 1
    /\ baseline = AbsentFile
    /\ op = "none"
    /\ ret = nil
    /\ cmpRet = nil
    /\ syncRan = FALSE
    /\ HardenedInit
    /\ template = RepoTemplate
    /\ syncPc = "idle"
    /\ pending = [meta |-> AbsentFile, prior |-> "absent"]
    /\ reader = [who |-> "none", err |-> nil, during |-> FALSE, prior |-> "absent"]

SpecEnv == InitEnv /\ [][EnvNext]_vars

\* ------------------------------------------ Sync on any adapter answer
\* the platform entries json.Unmarshal can hand to Sync: those of a
\* regular manifest and an entry whose "digest" is absent or empty
AdapterEntries ==
    ManifestEntries \cup { [arch |-> "arm64", digest |-> ""] }

SeqsUpTo(S, n) == UNION { [1..k -> S] : k \in 0..n }

\* Sync applied once to any baseline file and any answer of the adapter
InitSync ==
    /\ upstream \in [list : ListDigests,
                      manifests : SeqsUpTo(AdapterEntries, MaxManifest)]
    /\ clock = 1
    /\ baseline \in InitFiles
    /\ op = "none"
    /\ ret = nil
    /\ cmpRet = nil
    /\ syncRan = FALSE
    /\ HardenedInit
    /\ template = RepoTemplate
    /\ ConcInit

SpecSync == InitSync /\ [][Sync]_vars

\* ------------------------------------- Sync step by step, with a reader
\* Sync up to the record it has built in memory: the adapter calls and the
\* read of the existing file for the carry-forward
SyncFetch ==
    /\ syncPc = "idle"
    /\ \E fault \in SyncFaults \ {"create", "encode"} :
        LET r == SyncResult(baseline, upstream, clock, fault)
        IN  IF r.err # nil
            THEN /\ op' = "Sync"
                 /\ ret' = r.err
                 /\ cmpRet' = nil
                 /\ syncRan' = TRUE
                 /\ UNCHANGED <<syncPc, pending>>
            ELSE /\ syncPc' = "built"
                 /\ pending' = [meta |-> r.file, prior |-> baseline.kind]
                 /\ UNCHANGED <<op, ret, cmpRet, syncRan>>
    /\ UNCHANGED <<baseline, upstream, clock, reader, hardenedVars, toolVars>>

\* os.Create(baselineFile): the file exists and is empty afterwards
SyncCreate ==
    /\ syncPc = "built"
    /\ \E ok \in BOOLEAN :
        IF ok
        THEN /\ baseline' = CorruptFile
             /\ syncPc' = "created"
             /\ UNCHANGED <<op, ret, cmpRet, syncRan>>
        ELSE /\ syncPc' = "idle"
             /\ op' = "Sync"
             /\ ret' = "failed to write baseline file"
             /\ cmpRet' = nil
             /\ syncRan' = TRUE
             /\ UNCHANGED baseline
    /\ UNCHANGED <<upstream, clock, pending, reader, hardenedVars, toolVars>>

\* enc.Encode(meta) and the return of Sync
SyncEncode ==
    /\ syncPc = "created"
    /\ \E ok \in BOOLEAN :
        /\ baseline' = IF ok THEN pending.meta ELSE CorruptFile
        /\ ret' = IF ok THEN nil ELSE "failed to encode baseline metadata"
    /\ syncPc' = "idle"
    /\ op' = "Sync"
    /\ cmpRet' = nil
    /\ syncRan' = TRUE
    /\ UNCHANGED <<upstream, clock, pending, reader, hardenedVars, toolVars>>

\* what a reader of the baseline file reports: its error, whether a Sync
\* was between its first and its last step, and what the file was when
\* that Sync began
Reads(who, err) ==
    reader' = [who |-> who, err |-> err, during |-> syncPc # "idle",
               prior |-> pending.prior]

ReadShow ==
    /\ Reads("Show", ShowErr(baseline))
    /\ UNCHANGED <<baseline, digestVars, syncPc, pending, hardenedVars, toolVars>>

ReadCompare ==
    /\ \E fault \in CompareFaults :
        Reads("Compare", CompareErr(baseline, upstream, getLocalArch, fault))
    /\ UNCHANGED <<baseline, digestVars, syncPc, pending, hardenedVars, toolVars>>

ReadPrepare ==
    /\ \E probe \in ProbeOutcomes, fault \in PrepareFaults :
        LET r == PrepareResult(baseline, GOARCH, probe, fault, template, clock,
                               pinned, buildmeta)
        IN  /\ pinned' = r.pinned
            /\ buildmeta' = r.meta
            /\ diag' = PrepareDiag(r)
            /\ Reads("Prepare", r.err)
    /\ UNCHANGED <<baseline, digestVars, syncPc, pending, pc, invoked, failedStage,
                   cleanWarned, allRet, mode, stageErr, checks, tags, env,
                   template, registry, toolVars>>

ConcNext ==
    \/ SyncFetch
    \/ SyncCreate
    \/ SyncEncode
    \/ ReadShow
    \/ ReadCompare
    \/ ReadPrepare

\* one Sync after the other, with readers of the baseline file at any moment
SpecConcurrent == Init /\ [][ConcNext]_vars

\* ================================================================= claims
StageOrder == <<"Prepare", "Build", "Verify", "Promote", "Clean">>

IsPrefix(a, b) == Len(a) <= Len(b) /\ SubSeq(b, 1, Len(a)) = a

WasInvoked(stage) == \E i \in 1..Len(invoked) : invoked[i] = stage

\* a step taken by a SrcDigest operation (not by the registry or the clock)
\* that returns operation o
Returns(o) == op' = o /\ upstream' = upstream /\ clock' = clock

\* errors an adapter call returns when the tool or the registry fails
AdapterFailures ==
    {"docker not found in PATH", "failed to inspect manifest list digest",
     "failed to inspect manifest"}

AllowList == {"amd64", "arm64"}

\* the positions of the manifest entries for allow-listed architecture k
EntriesFor(ms, k) ==
    {i \in 1..Len(ms) : k \in AllowList /\ ToLower(ms[i].arch) = k}

\* the digest of the last manifest entry for k
Fetched(ms, k) ==
    LET last == CHOOSE i \in EntriesFor(ms, k) : \A j \in EntriesFor(ms, k) : j <= i
    IN  ms[last].digest

\* C1: in Hardened.All the stages are invoked in the order Prepare, Build,
\* Verify, Promote (then Clean); as soon as one of the four fails it is the
\* last stage invoked, the run has ended and returns that stage's failure;
\* in particular Promote is never invoked in a run where Verify failed.
C1_HardGates ==
    /\ IsPrefix(invoked, StageOrder)
    /\ failedStage # "none" =>
          /\ pc = "done"
          /\ invoked[Len(invoked)] = failedStage
          /\ allRet = StageFailed(failedStage)
    /\ failedStage = "Verify" => ~WasInvoked("Promote")

C1_Witness ==
    /\ pc = "done"
    /\ failedStage = "Verify"
    /\ invoked = <<"Prepare", "Build", "Verify">>
    /\ allRet = "verification stage failed"

\* C2 as stated: every run of Hardened.All that has returned has invoked
\* Clean, also when one of the four earlier stages failed.
C2_CleanAlwaysAttempted ==
    pc = "done" => WasInvoked("Clean")

\* C2 amended: a run of Hardened.All that has returned has invoked Clean
\* exactly when Prepare, Build, Verify and Promote all succeeded; a run in
\* which one of them failed returns without invoking Clean.
C2_CleanOnlyAfterSuccess ==
    pc = "done" => (WasInvoked("Clean") <=> failedStage = "none")

C2_Witness ==
    /\ pc = "done"
    /\ failedStage = "Promote"
    /\ invoked = <<"Prepare", "Build", "Verify", "Promote">>
    /\ pinned.kind = "file"

\* C3: Hardened.All returns success exactly when Prepare, Build, Verify and
\* Promote all succeeded; a Clean that could not remove its file only warns
\* and the run still returns success.
C3_SuccessIffStagesPassed ==
    pc = "done" =>
        /\ allRet = nil <=> failedStage = "none"
        /\ cleanWarned => allRet = nil

C3_Witness ==
    /\ pc = "done"
    /\ cleanWarned
    /\ allRet = nil
    /\ invoked = StageOrder

\* C4: when the Compare run by SrcDigest.All returns no error, All does not
\* invoke Sync, returns success and leaves the baseline file as it was.
C4_NoSyncWhenUpToDate ==
    [][ (Returns("All") /\ cmpRet' = nil) =>
            (~syncRan' /\ ret' = nil /\ baseline' = baseline) ]_vars

C4_Witness ==
    /\ op = "All"
    /\ cmpRet = nil
    /\ ~syncRan
    /\ baseline.kind = "record"

\* C5: when no baseline file exists SrcDigest.All always runs Sync; it
\* returns success exactly when that Sync wrote the file, and the record
\* then holds the tracked repository and tag, the upstream manifest-list
\* digest and one entry per allow-listed architecture of the manifest,
\* with the digest of a manifest entry of that architecture.
C5_Initialization ==
    [][ (Returns("All") /\ baseline.kind = "absent") =>
          /\ syncRan'
          /\ ret' = nil <=> baseline'.kind = "record"
          /\ ret' # nil => ret' \in {"initial sync failed", "sync failed"}
          /\ ret' = nil =>
                /\ baseline'.repository = upstreamImage
                /\ baseline'.tag = factorioTag
                /\ baseline'.manifest_list = upstream.list
                /\ \A k \in ArchKeys :
                      IF EntriesFor(upstream.manifests, k) = {}
                      THEN baseline'.digests[k] = Missing
                      ELSE \E i \in EntriesFor(upstream.manifests, k) :
                              baseline'.digests[k] = upstream.manifests[i].digest
      ]_vars

C5_Witness ==
    /\ op = "All"
    /\ cmpRet = "no baseline file found"
    /\ syncRan
    /\ ret = nil
    /\ baseline.kind = "record"
    /\ baseline.manifest_list = "sha256:ccc"
    /\ baseline.digests = [NoDigests EXCEPT !["amd64"] = "sha256:aaa",
                                           !["arm64"] = "sha256:bbb"]

\* C6 as stated: every record a successful Sync persists has digests keys
\* in {amd64, arm64} only, whatever the prior baseline file held.
C6_AllowListOnly ==
    (syncRan /\ ret = nil /\ baseline.kind = "record") =>
        \A k \in ArchKeys \ AllowList : baseline.digests[k] = Missing

\* C7: the digests map a successful Sync persists over an existing record
\* is that record's map overridden by the allow-listed entries of the
\* fetched manifest: an architecture the manifest has takes the fetched
\* digest, every other key keeps its old value.
C7_CarryForward ==
    [][ (Returns("Sync") /\ ret' = nil /\ baseline.kind = "record") =>
          \A k \in ArchKeys :
              baseline'.digests[k] =
                  IF EntriesFor(upstream.manifests, k) # {}
                  THEN Fetched(upstream.manifests, k)
                  ELSE baseline.digests[k]
      ]_vars

C7_Witness ==
    /\ op = "Sync"
    /\ ret = nil
    /\ upstream.manifests = << [arch |-> "arm64", digest |-> "sha256:bbb"] >>
    /\ baseline.digests = [NoDigests EXCEPT !["amd64"] = "sha256:aaa",
                                           !["arm64"] = "sha256:bbb"]

\* C8: no Compare modifies the baseline file, and a Compare that follows a
\* Compare which returned "up to date", with no upstream change between
\* them, returns "up to date" again unless an adapter call fails.
C8_CompareReadOnly ==
    [][ Returns("Compare") =>
          /\ baseline' = baseline
          /\ (op = "Compare" /\ ret = nil /\ ret' \notin AdapterFailures)
                => ret' = nil
      ]_vars

C8_Witness ==
    /\ op = "Compare"
    /\ ret = nil
    /\ baseline.kind = "record"
    /\ baseline.digests[getLocalArch] = "sha256:bbb"

\* the baseline file is the record of a successful Sync of this run (the
\* clock starts at 1, older files carry 0) and the upstream manifest-list
\* digest has changed since
DriftAfterSync ==
    /\ baseline.kind = "record"
    /\ baseline.updated_at >= 1
    /\ baseline.manifest_list # upstream.list

\* C9 as stated: a successful Sync that follows a successful Sync, the
\* upstream manifest-list digest having changed between them, persists the
\* new digest and an updated_at strictly greater than the first one's.
C9_UpdatedAtStrictlyLater ==
    [][ (Returns("Sync") /\ ret' = nil /\ DriftAfterSync) =>
          /\ baseline'.manifest_list = upstream.list
          /\ baseline'.updated_at > baseline.updated_at
      ]_vars

\* C9 amended: such a Sync persists the new digest and, as updated_at, the
\* second of its own call, which is never before the first one's and is
\* equal to it when both calls fall in the same second.
C9_UpdatedAtNotEarlier ==
    [][ (Returns("Sync") /\ ret' = nil /\ DriftAfterSync) =>
          /\ baseline'.manifest_list = upstream.list
          /\ baseline'.updated_at = clock
          /\ baseline'.updated_at >= baseline.updated_at
      ]_vars

C9_Witness ==
    /\ DriftAfterSync
    /\ baseline.updated_at = clock
    /\ syncRan = FALSE
    /\ op = "none"

\* C10 as stated: whenever a baseline record exists and the upstream
\* manifest-list digest differs from the stored one, Compare's verdict is
\* manifest-list drift whatever the per-architecture state, also when the
\* manifest has no entry for the local architecture; a per-architecture
\* verdict is given only when the manifest-list digests are equal.
C10_ManifestListFirst ==
    (op = "Compare" /\ baseline.kind = "record" /\ ret \notin AdapterFailures) =>
        /\ baseline.manifest_list # upstream.list
              => ret = "manifest list digest changed"
        /\ ret \in {"digest changed for local arch", "missing digest for local arch"}
              => baseline.manifest_list = upstream.list

\* what the adapter answers for the local architecture when it is asked
\* without a failure of the tool
UpstreamArch == getLocalArchDigest(upstream, GOARCH, "none")

\* C11: when Compare got both digests from the adapter, read a baseline
\* record and the stored manifest-list digest equals the upstream one, its
\* verdict depends on the local architecture alone: "missing digest" when
\* the record has no entry for it, "digest changed" when the stored entry
\* differs from the upstream digest for it, up to date (nil) when they are
\* equal; the three cases exclude each other and cover every such input.
C11_ArchVerdict ==
    (/\ op = "Compare"
     /\ baseline.kind = "record"
     /\ ret \notin AdapterFailures
     /\ UpstreamArch.err = nil
     /\ baseline.manifest_list = upstream.list) =>
        /\ ret \in {"missing digest for local arch", "digest changed for local arch", nil}
        /\ ret = "missing digest for local arch"
              <=> baseline.digests[GOARCH] = Missing
        /\ ret = "digest changed for local arch"
              <=> /\ baseline.digests[GOARCH] # Missing
                  /\ baseline.digests[GOARCH] # UpstreamArch.val
        /\ ret = nil
              <=> baseline.digests[GOARCH] = UpstreamArch.val

C11_Witness ==
    /\ op = "Compare"
    /\ baseline.kind = "record"
    /\ baseline.manifest_list = upstream.list
    /\ baseline.digests[GOARCH] = Missing
    /\ baseline.digests["arm64"] # Missing
    /\ UpstreamArch.err = nil
    /\ ret = "missing digest for local arch"

\* C12 as stated: when no baseline file exists Compare's verdict is "no
\* baseline file found", whether or not the adapter queries succeed.
C12_NoBaselineFirst ==
    (op = "Compare" /\ baseline.kind = "absent") => ret = "no baseline file found"

\* C13 as stated: whatever happens during the save of a Sync, the baseline
\* file it leaves is the complete previous content or a complete new
\* record, never an empty or truncated file.
C13_SaveAllOrNothing ==
    [][ Returns("Sync") => (baseline' = baseline \/ baseline'.kind = "record") ]_vars

\* errors of a reader that could not parse the baseline file
ParseFailures == {"failed to parse baseline", "failed to parse baseline file"}

\* C14 as stated: a reader (Compare, Show or Prepare) that runs while a
\* Sync saves never fails to parse a baseline that was a complete record
\* before that Sync began.
C14_ReaderSeesCompleteRecord ==
    (reader.who # "none" /\ reader.during /\ reader.prior = "record")
        => reader.err \notin ParseFailures

\* a step in which Prepare runs as a stage of the pipeline
PrepareStep == invoked' = Append(invoked, "Prepare")

\* C15: when the baseline record has no digests entry for the local
\* architecture, Prepare fails with "no digest found for architecture" and
\* leaves the pinned Dockerfile and the build metadata file as they were.
C15_MissingArchNoOutput ==
    [][ (PrepareStep /\ baseline.kind = "record" /\ baseline.digests[GOARCH] = Missing)
            => /\ stageErr' = "no digest found for architecture"
               /\ failedStage' = "Prepare"
               /\ pinned' = pinned
               /\ buildmeta' = buildmeta
      ]_vars

C15_Witness ==
    /\ invoked = << "Prepare" >>
    /\ baseline.kind = "record"
    /\ baseline.digests[GOARCH] = Missing
    /\ baseline.digests["arm64"] # Missing
    /\ stageErr = "no digest found for architecture"
    /\ pinned = AbsentArtifact
    /\ buildmeta = AbsentArtifact

\* lines that declare the upstream image as base image
DeclaresUpstream(text) ==
    text \in {L_FromDigestArg, L_FromTag, L_FromTagIndented, L_FromPlatform}

\* C16 as stated: after a successful Prepare no line of the rendered file
\* declares the upstream base image by tag or otherwise unpinned; every
\* template line that did is replaced by the reference repository@digest
\* with the baseline's digest for the local architecture, and every other
\* line is unchanged (compared line by line when no stage was inserted).
C16_EveryUpstreamFromPinned ==
    [][ (PrepareStep /\ stageErr' = nil)
            => /\ \A j \in 1..Len(pinned'.lines) :
                    ~DeclaresUpstream(pinned'.lines[j].text)
               /\ Len(pinned'.lines) = Len(template)
                    => \A i \in 1..Len(template) :
                          pinned'.lines[i] =
                             IF DeclaresUpstream(template[i].text)
                             THEN PinnedFrom(baseline.repository,
                                             baseline.digests[GOARCH])
                             ELSE template[i]
      ]_vars

HasInitStage(lines) == \E i \in 1..Len(lines) : lines[i].text = L_InitStage

\* lines that copy from the init-config stage
UsesInitStage(text) == text \in {L_Copy, L_CopyIndented, L_CopyChown}

\* the init-config stage stands right before the first line that uses it
\* (one empty line between them)
InitStageBeforeFirstUse(lines) ==
    \E u \in 1..Len(lines) :
        /\ UsesInitStage(lines[u].text)
        /\ \A j \in 1..(u - 1) : ~UsesInitStage(lines[j].text)
        /\ u > Len(initStage) + 1
        /\ SubSeq(lines, u - Len(initStage) - 1, u - 2) = initStage

\* C17 as stated: the file a successful Prepare writes always contains the
\* init-config stage; when the template lacks it the stage is inserted
\* right before the first COPY --from=init-config.
C17_InitStageAlwaysPresent ==
    [][ (PrepareStep /\ stageErr' = nil)
            => /\ HasInitStage(pinned'.lines)
               /\ ~HasInitStage(template) => InitStageBeforeFirstUse(pinned'.lines)
      ]_vars

CheckOrder ==
    << "checkNonRoot", "trivyScan", "checkReadOnlyRuntime", "verifyKyvernoCompliance" >>

\* C18: the sub-checks a Verify called are an initial part of the order
\* non-root check, vulnerability scan, read-only smoke test, policy
\* dry-run; the dry-run is called only with KYVERNO_TEST set to true; every
\* check before the last one called passed (the first failure ends
\* Verify); Verify fails exactly when the last check called failed, and
\* when it succeeds all three checks, and the dry-run if enabled, passed.
C18_VerifyFailFast ==
    checks # << >> =>
        /\ Len(checks) <= Len(CheckOrder)
        /\ \A i \in 1..Len(checks) : checks[i].name = CheckOrder[i]
        /\ Len(checks) = 4 => env.KYVERNO_TEST \in {"true", "TRUE"}
        /\ \A i \in 1..(Len(checks) - 1) : checks[i].ok
        /\ failedStage = "Verify" <=> ~checks[Len(checks)].ok
        /\ failedStage # "Verify"
              => Len(checks) = (IF env.KYVERNO_TEST \in {"true", "TRUE"} THEN 4 ELSE 3)

C18_Witness ==
    /\ Len(checks) = 2
    /\ checks[1].ok
    /\ ~checks[2].ok
    /\ failedStage = "Verify"
    /\ env.KYVERNO_TEST = "TRUE"
    /\ pc = "done"

TestOrder == << "Prepare", "testBuild", "Verify" >>

\* C19: Hardened.Test invokes Prepare, the local build (testBuild) and
\* Verify in this order; a stage that fails is the last one invoked and
\* Test returns its failure; Test returns nil only after all three
\* passed; it never goes on to Promote or Clean, and nothing is pushed to
\* the registry.
C19_TestVariant ==
    mode = "Test" =>
        /\ IsPrefix(invoked, TestOrder)
        /\ pc \in {"Prepare", "testBuild", "Verify", "done"}
        /\ failedStage # "none"
              => /\ invoked[Len(invoked)] = failedStage
                 /\ pc = "done"
                 /\ allRet = StageFailed(failedStage)
        /\ (pc = "done" /\ failedStage = "none")
              => invoked = TestOrder /\ allRet = nil
        /\ allRet = nil => invoked = TestOrder /\ failedStage = "none"
        /\ tags.Promote = NoTag
        /\ registry = {}

C19_Witness ==
    /\ mode = "Test"
    /\ pc = "done"
    /\ allRet = nil
    /\ invoked = TestOrder
    /\ tags.Build # NoTag
    /\ pinned.kind = "file"
    /\ registry = {}

\* C20 as stated: the image tag that Build builds, Verify checks and
\* Promote pushes is the tag recorded in the build metadata file that
\* Prepare wrote, or the tag of the version override when VERSION is set.
C20_TagFromBuildMetadata ==
    \A stage \in {"Build", "Verify", "Promote"} :
        (tags[stage] # NoTag /\ buildmeta.kind = "file") =>
            tags[stage] = IF env.VERSION # ""
                          THEN ImageTag(imageRepo, env.VERSION)
                          ELSE buildmeta.Tag

\* C21 as stated: Clean discards the build metadata file, so when a run of
\* the full pipeline that reached Clean has returned, no metadata file is
\* left on disk for a later run.
C21_CleanDiscardsMetadata ==
    (pc = "done" /\ WasInvoked("Clean")) => buildmeta.kind = "absent"

\* C22 as stated: when an adapter query of the Compare that SrcDigest.All
\* runs fails, All returns a failure; it does not go on as if drift had
\* been detected and end with success.
C22_AdapterFailureFatal ==
    (op = "All" /\ cmpRet \in AdapterFailures) => ret # nil

\* errors that tell that the baseline file is missing or unreadable
BaselineErrors ==
    {"no baseline file found", "cannot read baseline file",
     "failed to parse baseline", "failed to parse baseline file"}

\* C23: a Sync that finds the baseline file absent or unparsable does not
\* fail on that account (with the adapter and the file system working it
\* succeeds, and no error it returns is about the old baseline); the
\* record it persists has a digests entry exactly for the allow-listed
\* architectures of the fetched manifest, each with the fetched digest.
C23_SyncWithoutPriorBaseline ==
    [][ (Returns("Sync") /\ baseline.kind \in {"absent", "corrupt"})
            => /\ ret' \notin BaselineErrors
               /\ ret' \in {nil} \cup AdapterFailures
                        \cup {"failed to pull upstream image",
                              "failed to parse manifest",
                              "failed to write baseline file",
                              "failed to encode baseline metadata"}
               /\ ret' = nil
                    => /\ baseline'.kind = "record"
                       /\ baseline'.manifest_list = upstream.list
                       /\ \A k \in ArchKeys :
                            IF EntriesFor(upstream.manifests, k) # {}
                            THEN baseline'.digests[k] = Fetched(upstream.manifests, k)
                            ELSE baseline'.digests[k] = Missing
      ]_vars

C23_Witness ==
    /\ op = "Sync"
    /\ ret = nil
    /\ baseline.kind = "record"
    /\ baseline.updated_at = clock
    /\ baseline.digests["amd64"] # Missing
    /\ baseline.digests["arm64"] = Missing
    /\ baseline.digests["riscv64"] = Missing
    /\ \E i \in 1..Len(upstream.manifests) : upstream.manifests[i].arch = "riscv64"

\* the only errors Prepare returns once it has the digest of the local
\* architecture: the template could not be read, the pinned Dockerfile
\* could not be written
PrepareIOErrors ==
    {"failed to read template Dockerfile", "failed to write pinned Dockerfile"}

\* C24: whatever the version probe answers, Prepare does not fail because
\* of it; when Prepare succeeds and has written the build metadata, the
\* recorded version is the detected one after a successful probe and
\* "unknown" after a probe error, a timeout or output without a version
\* line, and the recorded tag is imageRepo with that version.
C24_VersionBestEffort ==
    [][ (PrepareStep /\ diag'.probe # "none")
            => /\ stageErr' \in {nil} \cup PrepareIOErrors
               /\ (stageErr' = nil /\ ~diag'.metaErr)
                    => /\ buildmeta'.kind = "file"
                       /\ buildmeta'.Version = (IF diag'.probe = "ok"
                                                THEN DetectedVersion ELSE "unknown")
                       /\ buildmeta'.Tag = ImageTag(imageRepo, buildmeta'.Version)
      ]_vars

C24_Witness ==
    /\ invoked = << "Prepare" >>
    /\ stageErr = nil
    /\ diag.probe = "timeout"
    /\ buildmeta.kind = "file"
    /\ buildmeta.Version = "unknown"
    /\ buildmeta.Tag = ImageTag(imageRepo, "unknown")

\* C26 as stated: when buildmeta.json cannot be written Prepare returns an
\* error, so a Prepare that returns nil has left the metadata of this run
\* on disk.
C26_MetadataWriteFatal ==
    [][ PrepareStep
            => /\ diag'.metaErr => stageErr' # nil
               /\ stageErr' = nil
                    => /\ buildmeta'.kind = "file"
                       /\ buildmeta'.BaseDigest = baseline.digests[GOARCH]
      ]_vars

\* C27 as stated: when trivy cannot be invoked the vulnerability sub-check
\* fails, Verify fails and Promote is not reached.
C27_MissingScannerFatal ==
    diag.trivy = "missing"
        => /\ Len(checks) = 2
           /\ ~checks[2].ok
           /\ failedStage = "Verify"
           /\ ~WasInvoked("Promote")

GateStep ==
    \E st \in {"Build", "Verify", "Promote"} : invoked' = Append(invoked, st)

\* C29: Build, Verify and Promote leave the pinned Dockerfile and the
\* build metadata file as they are; when one of them fails the run
\* returns at once, with the pinned Dockerfile that Prepare wrote (and its
\* metadata, unless that write failed) still on disk; Clean never runs in
\* a run with a failed stage.
C29_NoRollback ==
    [][ /\ GateStep
            => /\ pinned' = pinned
               /\ buildmeta' = buildmeta
               /\ stageErr' # nil
                    => /\ pc' = "done"
                       /\ allRet' = StageFailed(failedStage')
                       /\ pinned'.kind = "file"
                       /\ ~diag'.metaErr
                            => /\ buildmeta'.kind = "file"
                               /\ buildmeta'.BaseDigest = baseline.digests[GOARCH]
        /\ invoked' = Append(invoked, "Clean") => failedStage = "none"
      ]_vars

C29_Witness ==
    /\ pc = "done"
    /\ failedStage = "Verify"
    /\ allRet = "verification stage failed"
    /\ pinned.kind = "file"
    /\ buildmeta.kind = "file"
    /\ buildmeta.BaseDigest = baseline.digests[GOARCH]

\* C25 as stated: in every baseline record on disk each digests value is
\* a non-empty digest string, and a record with a digests entry has a
\* non-empty manifest_list, whatever manifest list and manifest entries
\* the adapter returned to the Sync that wrote it.
C25_RecordInvariants ==
    baseline.kind = "record" =>
        /\ \A k \in ArchKeys : baseline.digests[k] # ""
        /\ (\E k \in ArchKeys : baseline.digests[k] # Missing)
              => baseline.manifest_list # ""

\* C30 as stated: after SrcDigest.All has returned success, with the local
\* architecture allow-listed and present in the upstream manifest and
\* upstream unchanged since, a Compare whose adapter queries succeed
\* finds the baseline up to date, and a second SrcDigest.All runs no Sync.
C30_ReconcileConverges ==
    [][ (/\ op = "All"
         /\ ret = nil
         /\ GOARCH \in AllowList
         /\ EntriesFor(upstream.manifests, GOARCH) # {})
            => /\ (Returns("Compare") /\ ret' \notin AdapterFailures) => ret' = nil
               /\ (Returns("All") /\ cmpRet' \notin AdapterFailures) => ~syncRan'
      ]_vars

\* C31: Sync is idempotent up to its timestamp: a successful Sync that
\* follows a successful Sync, with upstream unchanged between them,
\* persists a record with the same repository, tag, manifest_list and
\* digests map; only updated_at may differ.
C31_SyncIdempotent ==
    [][ (op = "Sync" /\ ret = nil /\ Returns("Sync") /\ ret' = nil)
            => /\ baseline'.kind = "record"
               /\ baseline'.repository = baseline.repository
               /\ baseline'.tag = baseline.tag
               /\ baseline'.manifest_list = baseline.manifest_list
               /\ baseline'.digests = baseline.digests
               /\ baseline'.updated_at = clock
      ]_vars

\* a successful Sync at a later second than the one the module starts at,
\* on a record holding a fetched digest next to a carried-forward one
C31_Witness ==
    /\ op = "Sync"
    /\ ret = nil
    /\ clock > 1
    /\ baseline.updated_at = clock
    /\ EntriesFor(upstream.manifests, "amd64") # {}
    /\ EntriesFor(upstream.manifests, "arm64") = {}
    /\ baseline.digests["amd64"] = Fetched(upstream.manifests, "amd64")
    /\ baseline.digests["arm64"] # Missing

\* the errors of the steps Sync takes before it opens the baseline file:
\* the tool is unavailable, the pull, the manifest-list inspection, the
\* manifest inspection or the manifest parse failed
FetchErrors ==
    {"docker not found in PATH", "failed to pull upstream image",
     "failed to inspect manifest list digest", "failed to inspect manifest",
     "failed to parse manifest"}

\* C32: Sync writes the baseline only after every adapter step has
\* succeeded: a Sync that returns the error of a failed adapter step leaves
\* the baseline file exactly as it was, and a Sync after which the file
\* differs returned success or the error of the encoder.
C32_WriteAfterAdapter ==
    [][ Returns("Sync") =>
          /\ ret' \in FetchErrors \cup {nil, "failed to write baseline file",
                                       "failed to encode baseline metadata"}
          /\ ret' \in FetchErrors => baseline' = baseline
          /\ baseline' # baseline
                => ret' \in {nil, "failed to encode baseline metadata"}
      ]_vars

\* the manifest parse of a Sync failed over an existing record that is
\* behind upstream
C32_Witness ==
    /\ op = "Sync"
    /\ ret = "failed to parse manifest"
    /\ baseline.kind = "record"
    /\ baseline.manifest_list # upstream.list

\* image repository plus the VERSION override, or "dev" when it is unset
OverrideOrDev(e) ==
    [repo |-> imageRepo, version |-> IF e.VERSION = "" THEN "dev" ELSE e.VERSION]

\* C33: within a run (the environment does not change during it) Build or
\* the local build, Verify and Promote all work on the one tag made of the
\* image repository and the VERSION override ("dev" when unset), and the
\* tag a successful Promote pushes is the tag the run's Verify examined.
C33_OneTagPerRun ==
    [][ /\ \A stage \in {"Build", "Verify", "Promote"} :
              tags'[stage] \in {NoTag, OverrideOrDev(env')}
        /\ tags'.Promote # NoTag
              => tags'.Build = tags'.Promote /\ tags'.Verify = tags'.Promote
        /\ tags'.Verify # NoTag => tags'.Build = tags'.Verify
        /\ registry' # registry
              => tags'.Verify # NoTag /\ registry' = registry \cup {tags'.Verify}
      ]_vars

\* a full run with the override set has returned success and the
\* registry holds the overridden tag and no other
C33_Witness ==
    /\ mode = "All"
    /\ allRet = nil
    /\ env.VERSION = "9.9.9"
    /\ tags.Promote = ImageTag(imageRepo, "9.9.9")
    /\ registry = {ImageTag(imageRepo, "9.9.9")}

\* the vulnerability sub-check of the current run has returned
ScanReturned == Len(checks) >= 2 /\ checks[2].name = "trivyScan"

ReportMode == ToLower(env.REPORT) = "true"

\* C34: in report mode the vulnerability sub-check passes exactly when the
\* scanner is available and the report is generated, whatever the image's
\* vulnerabilities, and so fails when the scanner is unavailable; in gate
\* mode it fails when the scan finds fixable critical vulnerabilities.
C34_ReportIsNoGate ==
    ScanReturned =>
        /\ ReportMode => (checks[2].ok <=> diag.trivy \in {"clean", "critical", "other"})
        /\ (ReportMode /\ diag.trivy = "missing") => ~checks[2].ok
        /\ (~ReportMode /\ diag.trivy = "critical") => ~checks[2].ok

\* a report-mode run whose image has a fixable critical vulnerability
\* passed the sub-check and went on to succeed
C34_Witness ==
    /\ ScanReturned
    /\ ReportMode
    /\ diag.trivy = "critical"
    /\ checks[2].ok
    /\ mode = "All"
    /\ allRet = nil

AllRan == envcheck.all # NotRun

SummaryRan == envcheck.summary # NotRun

\* Verify.All stopped at the first failing check and named it
AllFailFast ==
    LET r == envcheck.all
    IN  /\ Len(r.ran) \in 1..6
        /\ \A i \in 1..Len(r.ran) : r.ran[i].name = AllSteps[i].name
        /\ \A i \in 1..(Len(r.ran) - 1) : r.ran[i].ok
        /\ IF r.ran[Len(r.ran)].ok
           THEN Len(r.ran) = 6 /\ r.err = nil
           ELSE r.err = r.ran[Len(r.ran)].name

\* Verify.Summary ran all six checks and failed iff one of them did
SummaryAggregates ==
    LET r == envcheck.summary
    IN  /\ Len(r.ran) = 6
        /\ \A i \in 1..6 : r.ran[i].name = SummarySystems[i].name
        /\ r.err # nil <=> \E i \in 1..6 : ~r.ran[i].ok

\* C35 as stated: the two modes run the same six checks in the same
\* order, so on one host a check Verify.All ran has the verdict it has in
\* Verify.Summary; Verify.All stops at the first failing check and names
\* it, Verify.Summary runs all six and fails iff one of them failed.
C35_SameSixChecks ==
    /\ AllRan => AllFailFast
    /\ SummaryRan => SummaryAggregates
    /\ (AllRan /\ SummaryRan) =>
          \A i \in 1..Len(envcheck.all.ran) :
              envcheck.all.ran[i].ok = envcheck.summary.ran[i].ok

\* C35 amended: the two modes go through the same six subsystems in the
\* same order and share the first five checks; the sixth is the full
\* GitHub validation in Verify.All and the token check alone in
\* Verify.Summary, so it can fail in Verify.All where it passes in
\* Verify.Summary, never the other way round. Verify.All stops at the
\* first failing check and names it, Verify.Summary runs all six and fails
\* iff one of them failed.
C35_SameSubsystems ==
    /\ AllRan => AllFailFast
    /\ SummaryRan => SummaryAggregates
    /\ (AllRan /\ SummaryRan) =>
          \A i \in 1..Len(envcheck.all.ran) :
              IF i <= 5
              THEN /\ envcheck.all.ran[i].check = envcheck.summary.ran[i].check
                   /\ envcheck.all.ran[i].ok = envcheck.summary.ran[i].ok
              ELSE /\ envcheck.all.ran[i].check = "Github.ValidateAll"
                   /\ envcheck.summary.ran[i].check = "Github.Verify"
                   /\ envcheck.all.ran[i].ok => envcheck.summary.ran[i].ok

\* on one host Verify.Summary found every system healthy and Verify.All
\* failed at its GitHub step
C35_Witness ==
    /\ AllRan
    /\ SummaryRan
    /\ envcheck.summary.err = nil
    /\ envcheck.all.err = "GitHub authentication and token scopes"
    /\ Len(envcheck.all.ran) = 6

\* C36: a Deps target verifies, installs, verifies again: the installer is
\* called only after an initial Verify that failed, never after one that
\* passed; Deps returns success only if the last Verify it ran passed, so
\* an installer that returns without error and leaves the tool
\* unverifiable makes Deps return an error.
C36_VerifyInstallReverify ==
    deps.who # "none" =>
        LET c == deps.calls
            verifies == {i \in 1..Len(c) : c[i].call = "Verify"}
            last == CHOOSE i \in verifies : \A j \in verifies : j <= i
        IN  /\ Len(c) \in 1..3
            /\ c[1].call = "Verify"
            /\ \A i \in 1..Len(c) :
                  c[i].call = "install" => i = 2 /\ ~c[1].ok
            /\ c[1].ok => Len(c) = 1
            /\ ~c[1].ok => Len(c) >= 2 /\ c[2].call = "install"
            /\ (Len(c) >= 2 /\ c[2].ok) => Len(c) = 3 /\ c[3].call = "Verify"
            /\ (Len(c) >= 2 /\ ~c[2].ok) => Len(c) = 2 /\ deps.err # nil
            /\ deps.err = nil <=> c[last].ok
            /\ deps.err = nil => verifyLinter(host.Lint) = nil \/ deps.who # "Lint"
            /\ deps.err = nil => verifyTrivy(host.Trivy) = nil \/ deps.who # "Trivy"

\* Lint.Deps whose installer returned without error and left
\* golangci-lint failing its check
C36_Witness ==
    /\ deps.who = "Lint"
    /\ deps.calls = << Call("Verify", FALSE), Call("install", TRUE),
                       Call("Verify", FALSE) >>
    /\ deps.err = "installation did not verify successfully"
    /\ host.Lint = "stale"

====
